---------------------------- MODULE Spec2Model ----------------------------
(***************************************************************************)
(* A model of clips.rs: the typed binding layer over the CLIPS engine.     *)
(*                                                                         *)
(*   - value.rs : the tagged value protocol (EnvAllocatable::allocate,     *)
(*                ValueAccess::value)                                      *)
(*   - fact.rs  : FactBuilder, Fact, Iter, TemplateIter, Template          *)
(*   - lib.rs   : Environment (new_fact_builder, number_of_facts,          *)
(*                fact_iter, find_template)                                *)
(*   - clips_derive/src/lib.rs : the generated assert / recover code       *)
(*                                                                         *)
(* Integers are little-endian byte sequences of the width of their type,   *)
(* so that every `as` cast is the truncation or the sign/zero extension    *)
(* the compiler emits.  Text is a sequence of bytes; byte 0 is NUL.        *)
(***************************************************************************)
EXTENDS Integers, Sequences, FiniteSets

(***************************************************************************)
(* Bounds of the model.                                                    *)
(***************************************************************************)
\* Longest sampled text.
MaxTextLen == 2

\* Fact builders created in one run of the builders on their own.
MaxBuilders == 1

\* Fact builders created, hence facts asserted, in one run of the whole layer.
MaxFacts == 2

\* Handles held at once to one fact.
MaxHandles == 2

\* Iterators created in one run.
MaxIters == 1

(***************************************************************************)
(* Option<T> and panics.                                                   *)
(***************************************************************************)
None == [some |-> FALSE]

Some(x) == [some |-> TRUE, v |-> x]

\* The outcome of an `unwrap()` on an Err / None: the thread unwinds.
Panic == [tag |-> "PANIC"]

Range(s) == {s[i] : i \in 1..Len(s)}

(***************************************************************************)
(* Host integer types (value.rs:63-70, 153-160).                           *)
(***************************************************************************)
IntTypes == {"i8", "i16", "i32", "i64", "u8", "u16", "u32", "u64"}

FloatTypes == {"f32", "f64"}

\* Text types that can be allocated: &str, String, &String.
TextTypes == {"str", "String", "refString"}

\* Size of an integer type in bytes.
SizeOf(ty) ==
    CASE ty \in {"i8", "u8"}   -> 1
      [] ty \in {"i16", "u16"} -> 2
      [] ty \in {"i32", "u32"} -> 4
      [] ty \in {"i64", "u64"} -> 8

IsSigned(ty) == ty \in {"i8", "i16", "i32", "i64"}

\* `x as T` between integer types: truncation to the low bytes when T is
\* narrower, sign extension when the source type is signed, zero extension
\* when it is unsigned.
AsInt(bytes, fromTy, toTy) ==
    LET n == Len(bytes)
        m == SizeOf(toTy)
        fill == IF IsSigned(fromTy) /\ bytes[n] >= 128 THEN 255 ELSE 0
    IN  IF m <= n THEN SubSeq(bytes, 1, m)
        ELSE bytes \o [i \in 1..(m - n) |-> fill]

\* Sample bit patterns of an integer type: low byte, middle bytes and high
\* byte each drawn from the boundary bytes.
BoundaryBytes == {0, 1, 127, 128, 255}

IntPatterns(ty) ==
    LET n == SizeOf(ty)
    IN  {[i \in 1..n |-> IF i = 1 THEN lo ELSE IF i = n THEN hi ELSE mid] :
            lo \in BoundaryBytes, mid \in BoundaryBytes, hi \in BoundaryBytes}

(***************************************************************************)
(* Floats.  An f64 is NaN, an infinity, or a finite value m (in units of   *)
(* the f64 grid); the f32 grid is every second point of the f64 grid, up   *)
(* to a smaller largest finite value.                                      *)
(***************************************************************************)
NaN == [k |-> "nan", m |-> 0]

Inf(sign) == [k |-> "inf", m |-> sign]

Fin(m) == [k |-> "fin", m |-> m]

\* Largest finite magnitudes of the two grids.
F64Range == 6

F32Range == 4

F64Values == {NaN, Inf(1), Inf(-1)} \cup {Fin(m) : m \in (0 - F64Range)..F64Range}

F32Values == {NaN, Inf(1), Inf(-1)}
             \cup {Fin(m) : m \in {x \in (0 - F32Range)..F32Range : x % 2 = 0}}

\* `x as f64` of an f32: exact.
F32AsF64(x) == x

\* `x as f32` of an f64: round to the nearest point of the f32 grid, ties to
\* the even one; a magnitude beyond the largest finite f32 becomes infinite.
F64AsF32(x) ==
    IF x.k # "fin" THEN x
    ELSE LET a == IF x.m < 0 THEN 0 - x.m ELSE x.m
             s == IF x.m < 0 THEN -1 ELSE 1
             down == a - (a % 2)
             r == IF a % 2 = 0 THEN a
                  ELSE IF (down \div 2) % 2 = 0 THEN down ELSE down + 2
         IN  IF r > F32Range THEN Inf(s) ELSE Fin(s * r)

AsFloat(x, fromTy, toTy) ==
    IF fromTy = toTy THEN x
    ELSE IF toTy = "f64" THEN F32AsF64(x) ELSE F64AsF32(x)

(***************************************************************************)
(* Text.                                                                   *)
(***************************************************************************)
NUL == 0

TextBytes == {NUL, 97, 98}

\* "TRUE" and "FALSE"
TRUE_LEXEME == <<84, 82, 85, 69>>

FALSE_LEXEME == <<70, 65, 76, 83, 69>>

SeqsUpTo(S, n) == UNION {[1..k -> S] : k \in 0..n}

Texts == SeqsUpTo(TextBytes, MaxTextLen) \cup {TRUE_LEXEME, FALSE_LEXEME}

\* CString::new(s): an error when s holds an interior NUL, otherwise s
\* followed by the terminator.
CString_new(s) ==
    IF NUL \in Range(s) THEN [ok |-> FALSE, c |-> <<>>]
    ELSE [ok |-> TRUE, c |-> s \o <<NUL>>]

\* The bytes of a C string before its first NUL (what the engine copies and
\* what CStr::from_ptr sees).
RECURSIVE UntilNul(_)
UntilNul(c) ==
    IF c = <<>> \/ Head(c) = NUL THEN <<>>
    ELSE <<Head(c)>> \o UntilNul(Tail(c))

CStr_from_ptr(contents) == UntilNul(contents)

\* CStr::to_str succeeds on well-formed UTF-8.  Of the encodings only the
\* one-byte and two-byte forms are decoded here: the sampled bytes hold no
\* lead byte of a longer form.
RECURSIVE IsUtf8(_)
IsUtf8(bytes) ==
    IF bytes = <<>> THEN TRUE
    ELSE IF Head(bytes) < 128 THEN IsUtf8(Tail(bytes))
    ELSE IF /\ Head(bytes) \in 194..223
            /\ Len(bytes) >= 2
            /\ bytes[2] \in 128..191
         THEN IsUtf8(Tail(Tail(bytes)))
    ELSE FALSE


(***************************************************************************)
(* Engine values (sys::CLIPSValue): the header's type and the contents.    *)
(* type_of reads the header (value.rs:37-39).                              *)
(***************************************************************************)
Type == {"Float", "Integer", "Symbol", "String", "Multifield",
         "ExternalAddress", "FactAddress", "InstanceAddress", "InstanceName",
         "Void", "Bitmap"}

CreateInteger(i64) == [tag |-> "Integer", integerValue |-> i64]

CreateFloat(f64) == [tag |-> "Float", floatValue |-> f64]

\* The engine copies the C string up to its terminator.
CreateString(c) == [tag |-> "String", lexemeValue |-> UntilNul(c) \o <<NUL>>]

CreateSymbol(c) == [tag |-> "Symbol", lexemeValue |-> UntilNul(c) \o <<NUL>>]

type_of(val) == val.tag

\* A zeroed or void value.
NoValue == [tag |-> "Void"]

(***************************************************************************)
(* Host values, by kind.     EnvAllocatable::allocate (value.rs:133-237,      *)
(* fact.rs:105-111).                                                       *)
(***************************************************************************)
HInt(ty, bytes) == [ty |-> ty, i |-> bytes]

HFloat(ty, f) == [ty |-> ty, f |-> f]

HText(ty, s) == [ty |-> ty, s |-> s]

HSymbol(s) == [ty |-> "Symbol", s |-> s]

HBool(b) == [ty |-> "bool", b |-> b]

\* A Fact handle, passed by value.
HFact(ptr) == [ty |-> "Fact", ptr |-> ptr]

\* impl_env_allocatable_for_integer: CreateInteger(*self as i64)
allocate_int(v) == CreateInteger(AsInt(v.i, v.ty, "i64"))

\* impl_env_allocatable_for_float: CreateFloat(*self as f64)
allocate_float(v) == CreateFloat(AsFloat(v.f, v.ty, "f64"))

\* impl EnvAllocatable for &str: CString::new(*self).unwrap(), CreateString
allocate_str(s) ==
    LET c == CString_new(s)
    IN  IF c.ok THEN CreateString(c.c) ELSE Panic

\* impl EnvAllocatable for Symbol<S>
allocate_Symbol(s) ==
    LET c == CString_new(s)
    IN  IF c.ok THEN CreateSymbol(c.c) ELSE Panic

\* impl EnvAllocatable for bool
allocate_bool(b) ==
    LET c == IF b THEN CString_new(TRUE_LEXEME) ELSE CString_new(FALSE_LEXEME)
    IN  IF c.ok THEN CreateSymbol(c.c) ELSE Panic

\* An allocate for Fact that wraps the pointer as an external address.
allocate_Fact_external(ptr) == [tag |-> "ExternalAddress", factValue |-> ptr]

\* impl EnvAllocatable for Fact: the value holds the fact's pointer, and its
\* header is the fact's own header.
allocate_Fact(ptr) == [tag |-> "FactAddress", factValue |-> ptr]

allocate(v) ==
    CASE v.ty \in IntTypes   -> allocate_int(v)
      [] v.ty \in FloatTypes -> allocate_float(v)
      [] v.ty \in TextTypes  -> allocate_str(v.s)    \* String, &String: as_str()
      [] v.ty = "Symbol"     -> allocate_Symbol(v.s)
      [] v.ty = "bool"       -> allocate_bool(v.b)
      [] v.ty = "Fact"       -> allocate_Fact(v.ptr)

(***************************************************************************)
(* ValueAccess::value (value.rs:44-130), one operator per impl.            *)
(***************************************************************************)
\* An integer read that checks the range: None when the payload does not
\* fit the type.
value_int_checked(ty, val) ==
    IF type_of(val) = "Integer"
    THEN IF AsInt(AsInt(val.integerValue, "i64", ty), ty, "i64") = val.integerValue
         THEN Some(HInt(ty, AsInt(val.integerValue, "i64", ty)))
         ELSE None
    ELSE None

\* value_access_for_int!: contents as $ty
value_int(ty, val) ==
    IF type_of(val) = "Integer"
    THEN Some(HInt(ty, AsInt(val.integerValue, "i64", ty)))
    ELSE None

\* value_access_for_float!: contents as $ty
value_float(ty, val) ==
    IF type_of(val) = "Float"
    THEN Some(HFloat(ty, AsFloat(val.floatValue, "f64", ty)))
    ELSE None

\* A read that panicked: to_str().unwrap() on a lexeme that is not UTF-8.
ReadPanic == [some |-> FALSE, panic |-> TRUE]

\* cstr.to_str().unwrap()
to_str_unwrap(cstr) == IF IsUtf8(cstr) THEN [ok |-> TRUE, s |-> cstr]
                       ELSE [ok |-> FALSE, s |-> <<>>]

\* impl ValueAccess for &str
value_str_tagged(val) ==
    IF type_of(val) \in {"String", "Symbol"}
    THEN LET str == to_str_unwrap(CStr_from_ptr(val.lexemeValue))
         IN  IF str.ok THEN Some(HText("str", str.s)) ELSE ReadPanic
    ELSE None

value_str(val) ==
    IF type_of(val) = "String"
    THEN LET str == to_str_unwrap(CStr_from_ptr(val.lexemeValue))
         IN  IF str.ok THEN Some(HText("str", str.s)) ELSE ReadPanic
    ELSE None

\* impl ValueAccess for String: the &str, copied
value_String(val) ==
    LET r == value_str(val)
    IN  IF r.some THEN Some(HText("String", r.v.s)) ELSE r

\* impl ValueAccess for Symbol<&str>
value_Symbol(val) ==
    IF type_of(val) = "Symbol"
    THEN LET str == to_str_unwrap(CStr_from_ptr(val.lexemeValue))
         IN  IF str.ok THEN Some(HSymbol(str.s)) ELSE ReadPanic
    ELSE None

\* impl ValueAccess for bool
value_bool(val) ==
    LET symbol == value_Symbol(val)
    IN  IF ~symbol.some THEN symbol
        ELSE IF symbol.v.s = TRUE_LEXEME THEN Some(HBool(TRUE))
        ELSE IF symbol.v.s = FALSE_LEXEME THEN Some(HBool(FALSE))
        ELSE None

\* The types a value can be read at.
ReadTypes == IntTypes \cup FloatTypes \cup {"str", "String", "Symbol", "bool"}

value(ty, val) ==
    CASE ty \in IntTypes   -> value_int(ty, val)
      [] ty \in FloatTypes -> value_float(ty, val)
      [] ty = "str"        -> value_str(val)
      [] ty = "String"     -> value_String(val)
      [] ty = "Symbol"     -> value_Symbol(val)
      [] ty = "bool"       -> value_bool(val)

\* The host values of the protocol.
HostValues ==
    {HInt(ty, b) : ty \in {"i8"}, b \in IntPatterns("i8")}
    \cup {HInt(ty, b) : ty \in {"u8"}, b \in IntPatterns("u8")}
    \cup {HInt(ty, b) : ty \in {"i16"}, b \in IntPatterns("i16")}
    \cup {HInt(ty, b) : ty \in {"u16"}, b \in IntPatterns("u16")}
    \cup {HInt(ty, b) : ty \in {"i32"}, b \in IntPatterns("i32")}
    \cup {HInt(ty, b) : ty \in {"u32"}, b \in IntPatterns("u32")}
    \cup {HInt(ty, b) : ty \in {"i64"}, b \in IntPatterns("i64")}
    \cup {HInt(ty, b) : ty \in {"u64"}, b \in IntPatterns("u64")}
    \cup {HFloat("f32", f) : f \in F32Values}
    \cup {HFloat("f64", f) : f \in F64Values}
    \cup {HText(ty, s) : ty \in TextTypes, s \in Texts}
    \cup {HSymbol(s) : s \in Texts}
    \cup {HBool(b) : b \in BOOLEAN}

(***************************************************************************)
(* Result<T, E>.                                                           *)
(***************************************************************************)
\* kind is "Ok", "Err" or "Panic"; e is the error of an Err, ptr the fact of
\* an Ok(Fact).
OkUnit == [kind |-> "Ok", e |-> "", ptr |-> 0]

OkFact(ptr) == [kind |-> "Ok", e |-> "", ptr |-> ptr]

Err(e) == [kind |-> "Err", e |-> e, ptr |-> 0]

Panicked == [kind |-> "Panic", e |-> "", ptr |-> 0]

\* The null pointer.  Fact pointers are the positive integers.
NULL == 0

(***************************************************************************)
(* The engine, as far as this layer drives it.  The environment holds the  *)
(* deftemplates loaded into it (fact.rs:305-308: f1 and f2, slots a and b),*)
(* the fact list in assertion order, the retracted facts, the next fact    *)
(* address and the next fact index.  A fact is its address (what a         *)
(* Fact* points at), its index, its deftemplate and its slot values.       *)
(***************************************************************************)
Deftemplates == {"f1", "f2"}

SlotNames == {"a", "b"}

SlotsOf(template) == IF template \in Deftemplates THEN SlotNames ELSE {}

\* A slot that was not put holds the symbol nil.
NilValue == CreateSymbol(<<110, 105, 108, NUL>>)

DefaultSlots == [n \in SlotNames |-> NilValue]

\* sys::FindDeftemplate: the deftemplate of that name, or NULL.
FindDeftemplate(name) == IF name \in Deftemplates THEN name ELSE "NULL"

\* sys::CreateFactBuilder: NULL when there is no deftemplate of that name.
CreateFactBuilder(name) ==
    [null |-> FindDeftemplate(name) = "NULL", tmpl |-> FindDeftemplate(name),
     staged |-> DefaultSlots, freed |-> 0, uaf |-> FALSE]

\* Any call on a builder that was disposed of is a use after free.
Touch(fb) == [fb EXCEPT !.uaf = @ \/ fb.freed > 0]

\* sys::FBPutSlot: the error code, and the builder afterwards.
FBPutSlot(fb, slot, val) ==
    IF fb.null THEN [err |-> "PSE_NULL_POINTER_ERROR", fb |-> fb]
    ELSE IF slot \notin SlotsOf(fb.tmpl)
         THEN [err |-> "PSE_SLOT_NOT_FOUND_ERROR", fb |-> Touch(fb)]
    ELSE [err |-> "PSE_NO_ERROR",
          fb |-> [Touch(fb) EXCEPT !.staged[slot] = val]]

\* sys::FBAssert: the new fact's pointer or NULL, the builder (reset for
\* reuse) and the environment afterwards.  `accept` is the engine's verdict
\* on the staged fact.
FBAssert(fb, env, accept) ==
    IF fb.null \/ ~accept
    THEN [ptr |-> NULL, env |-> env,
          fb |-> IF fb.null THEN fb ELSE [Touch(fb) EXCEPT !.staged = DefaultSlots]]
    ELSE [ptr |-> env.next,
          env |-> [env EXCEPT
                     !.facts = Append(@, [addr |-> env.next, index |-> env.nextIndex,
                                          tmpl |-> fb.tmpl,
                                          slots |-> fb.staged]),
                     !.next = @ + 1,
                     !.nextIndex = @ + 1],
          fb |-> [Touch(fb) EXCEPT !.staged = DefaultSlots]]

\* sys::FBAbort: the staged values are discarded; the builder stays usable.
FBAbort(fb) ==
    IF fb.null THEN fb ELSE [Touch(fb) EXCEPT !.staged = DefaultSlots]

\* sys::FBDispose: the builder is freed.
FBDispose(fb) ==
    IF fb.null THEN fb
    ELSE [Touch(fb) EXCEPT !.staged = DefaultSlots, !.freed = @ + 1]

LivePointers(env) == {env.facts[i].addr : i \in 1..Len(env.facts)}

\* The fact struct behind a pointer the engine handed out.
NoFact == [addr |-> NULL, index |-> 0, tmpl |-> "NULL", slots |-> DefaultSlots]

FactAt(env, ptr) ==
    IF \E f \in Range(env.facts) \cup env.garbage : f.addr = ptr
    THEN CHOOSE f \in Range(env.facts) \cup env.garbage : f.addr = ptr
    ELSE NoFact

IsLive(env, ptr) == ptr \in LivePointers(env)

\* sys::GetNumberOfFacts
GetNumberOfFacts(env) == Len(env.facts)

\* sys::FactIndex: the values the call can return.  Through a pointer to a
\* retracted fact it returns whatever the fact's memory holds by then.
FactIndex(env, ptr) ==
    IF IsLive(env, ptr) THEN {FactAt(env, ptr).index}
    ELSE {FactAt(env, ptr).index, 0}

\* sys::Retract: the error code and the environment afterwards.  A fact that
\* was retracted before is not retracted again.
Retract(env, ptr) ==
    IF ptr = NULL THEN [err |-> "RE_NULL_POINTER_ERROR", env |-> env]
    ELSE IF ~IsLive(env, ptr)
         THEN [err |-> "RE_COULD_NOT_RETRACT_ERROR", env |-> env]
    ELSE [err |-> "RE_NO_ERROR",
          env |-> [env EXCEPT
                     !.facts = SelectSeq(@, LAMBDA f : f.addr # ptr),
                     !.garbage = @ \cup {FactAt(env, ptr)}]]

\* sys::FactSlotValue: the values the call can leave in *val.  The slot of a
\* live fact has one value; through a pointer to a retracted fact the read
\* sees whatever the fact's memory holds by then.
FactSlotValue(env, ptr, name) ==
    IF IsLive(env, ptr) THEN {FactAt(env, ptr).slots[name]}
    ELSE {FactAt(env, ptr).slots[name], NoValue}

\* The facts after ptr in a fact list, NULL at its end.
NextIn(list, ptr) ==
    IF ptr = NULL
    THEN IF list = <<>> THEN NULL ELSE list[1].addr
    ELSE LET i == CHOOSE k \in 1..Len(list) : list[k].addr = ptr
         IN  IF i = Len(list) THEN NULL ELSE list[i + 1].addr

\* sys::GetNextFact: the pointers the call can return.  After a fact that
\* is no longer in the fact list, what is returned is up to the engine.
GetNextFact(env, ptr) ==
    IF ptr = NULL \/ IsLive(env, ptr) THEN {NextIn(env.facts, ptr)}
    ELSE {NULL} \cup LivePointers(env)

\* sys::GetNextFactInTemplate
GetNextFactInTemplate(env, template, ptr) ==
    LET list == SelectSeq(env.facts, LAMBDA f : f.tmpl = template)
    IN  IF ptr = NULL \/ ptr \in {list[i].addr : i \in 1..Len(list)}
        THEN {NextIn(list, ptr)}
        ELSE {NULL} \cup {list[i].addr : i \in 1..Len(list)}

(***************************************************************************)
(* FactBuilder (fact.rs:5-69).  Each method is the new builder (the        *)
(* engine's struct behind self.fb), the result, and the environment when   *)
(* the method changes it.                                                  *)
(***************************************************************************)
\* FactBuilder::new
FactBuilder_new(template) == CreateFactBuilder(template)

\* impl Drop for FactBuilder
FactBuilder_drop(fb) == FBDispose(fb)

\* FactBuilder::put(&self, slot, value)
FactBuilder_put(fb, slot, v) ==
    LET val == allocate(v)
    IN  IF val = Panic THEN [res |-> Panicked, fb |-> fb]
        ELSE LET result == FBPutSlot(fb, slot, val)
             IN  [res |-> IF result.err = "PSE_NO_ERROR" THEN OkUnit
                          ELSE Err(result.err),
                  fb |-> result.fb]

\* An assert that wraps the returned pointer without the null check.
FactBuilder_assert_unchecked(fb, env, accept) ==
    LET r == FBAssert(fb, env, accept)
    IN  [res |-> OkFact(r.ptr), fb |-> FactBuilder_drop(r.fb), env |-> r.env]

\* An assert with the null check inverted.
FactBuilder_assert_inverted(fb, env, accept) ==
    LET r == FBAssert(fb, env, accept)
    IN  [res |-> IF r.ptr # NULL THEN Err("()") ELSE OkFact(r.ptr),
         fb |-> FactBuilder_drop(r.fb),
         env |-> r.env]

\* FactBuilder::assert(self): self is dropped when the method returns.
FactBuilder_assert(fb, env, accept) ==
    LET r == FBAssert(fb, env, accept)
    IN  [res |-> IF r.ptr = NULL THEN Err("()") ELSE OkFact(r.ptr),
         fb |-> FactBuilder_drop(r.fb),
         env |-> r.env]

\* An abort that frees the builder itself, before self is dropped.
FactBuilder_abort_disposing(fb, env) ==
    [fb |-> FactBuilder_drop(FBDispose(FBAbort(fb))), env |-> env]

\* An abort that calls FBAssert where FBAbort is meant.
FactBuilder_abort_asserting(fb, env) ==
    LET r == FBAssert(fb, env, TRUE)
    IN  [fb |-> FactBuilder_drop(r.fb), env |-> r.env]

\* FactBuilder::abort(self): self is dropped when the method returns.
FactBuilder_abort(fb, env) == [fb |-> FactBuilder_drop(FBAbort(fb)), env |-> env]

(***************************************************************************)
(* Fact (fact.rs:71-111): a handle is the fact's pointer.                  *)
(***************************************************************************)
\* An index() that returns the fact's place in the fact list.
Fact_index_position(env, ptr) ==
    IF IsLive(env, ptr) THEN {k \in 1..Len(env.facts) : env.facts[k].addr = ptr}
    ELSE {0}

\* Fact::index
Fact_index(env, ptr) == {i : i \in FactIndex(env, ptr)}

\* A retract that reports Ok whatever error code Retract returns.
Fact_retract_unchecked(env, ptr) ==
    [res |-> OkUnit, env |-> Retract(env, ptr).env]

\* Fact::retract(self)
Fact_retract(env, ptr) ==
    LET result == Retract(env, ptr)
    IN  [res |-> IF result.err = "RE_NO_ERROR" THEN OkUnit ELSE Err(result.err),
         env |-> result.env]

\* Fact::slot: the values the read can return.
Fact_slot(env, ptr, name) == FactSlotValue(env, ptr, name)

(***************************************************************************)
(* Iter and TemplateIter (fact.rs:113-206).                                *)
(***************************************************************************)
\* Iter::new
Iter_new == [kind |-> "Iter", template |-> "NULL", ptr |-> NULL, end |-> FALSE]

\* TemplateIter::new
TemplateIter_new(template) ==
    [kind |-> "TemplateIter", template |-> template, ptr |-> NULL, end |-> FALSE]

\* Template::fact_iter(&self)
Template_fact_iter(template) == TemplateIter_new(template)

\* Template::into_fact_iter(self)
Template_into_fact_iter(template) == TemplateIter_new(template)

\* A next() that walks the global fact list for every iterator.
NextPointers_global(it, env) == GetNextFact(env, it.ptr)

\* The pointers the engine can return to next().
NextPointers(it, env) ==
    IF it.kind = "Iter" THEN GetNextFact(env, it.ptr)
    ELSE GetNextFactInTemplate(env, it.template, it.ptr)

\* A next() without the check of self.end.
Iter_next_unchecked(it, p) ==
    IF p = NULL THEN [it |-> [it EXCEPT !.ptr = NULL, !.end = TRUE],
                      item |-> NULL]
    ELSE [it |-> [it EXCEPT !.ptr = p], item |-> p]

\* Iter::next and TemplateIter::next, p being the pointer the engine
\* returns: the iterator afterwards and the item (a fact pointer, or NULL
\* for None).
Iter_next(it, p) ==
    IF it.end THEN [it |-> it, item |-> NULL]
    ELSE IF p = NULL THEN [it |-> [it EXCEPT !.ptr = NULL, !.end = TRUE],
                           item |-> NULL]
    ELSE [it |-> [it EXCEPT !.ptr = p], item |-> p]

(***************************************************************************)
(* Environment (lib.rs:41-141).                                            *)
(***************************************************************************)
\* Environment::new_fact_builder
Environment_new_fact_builder(template) == FactBuilder_new(template)

\* Environment::number_of_facts
number_of_facts(env) == GetNumberOfFacts(env)

\* Environment::fact_iter
Environment_fact_iter == Iter_new

\* Environment::find_template
find_template(name) ==
    IF FindDeftemplate(name) = "NULL" THEN None ELSE Some(FindDeftemplate(name))

(***************************************************************************)
(* The code #[derive(clips_fact)] generates (clips_derive/src/lib.rs).     *)
(* A record type is its template and its fields in declaration order; a    *)
(* host value of the type is the sequence of its fields' values.           *)
(***************************************************************************)
\* SlotReceiver::slot_name: the rename when there is one, else the ident.
slot_name(field) == IF field.rename.some THEN field.rename.v ELSE field.ident

\* The fb.put(slot_name, self.field())? lines of the generated assert, from
\* field i on: the first put that fails ends them.  `puts` lists the slots
\* put was called with so far, in the order of the calls.
RECURSIVE PutFields(_, _, _, _, _)
PutFields(fb, fields, h, i, puts) ==
    IF i > Len(fields) THEN [res |-> OkUnit, fb |-> fb, puts |-> puts]
    ELSE LET r == FactBuilder_put(fb, slot_name(fields[i]), h[i])
             here == Append(puts, slot_name(fields[i]))
         IN  CASE r.res.kind = "Ok" -> PutFields(r.fb, fields, h, i + 1, here)
               [] r.res.kind = "Panic" ->
                    [res |-> Panicked, fb |-> r.fb, puts |-> here]
               [] OTHER ->
                    [res |-> Err("()"), fb |-> r.fb, puts |-> here]

\* Assertable::assert as generated: the builder is a local, dropped on
\* every way out.
Assertable_assert(schema, h, env, accept) ==
    LET fb == Environment_new_fact_builder(schema.template)
        p == PutFields(fb, schema.fields, h, 1, <<>>)
    IN  IF p.res.kind # "Ok"
        THEN [res |-> p.res, env |-> env, fb |-> FactBuilder_drop(p.fb),
              puts |-> p.puts, asserted |-> FALSE]
        ELSE LET r == FactBuilder_assert(p.fb, env, accept)
             IN  [res |-> IF r.res.kind = "Ok" THEN r.res ELSE Err("()"),
                  env |-> r.env,
                  fb |-> r.fb,
                  puts |-> p.puts, asserted |-> TRUE]

\* A field's type as the macro sees it: a path type's name under a number
\* of `&`.
Ty(name, refs) == [name |-> name, refs |-> refs]

\* The types choose_if_default compares with.
PrimitiveTypes == {"bool", "i8", "i16", "i32", "i64", "u8", "u16", "u32", "u64",
                   "f32", "f64"}

ReturnType == {"Default", "Ref", "Copy", "Clone"}

\* A choose_if_default without the reference case.
choose_if_default_paths(rt, ty) ==
    IF rt = "Default"
    THEN IF ty.refs = 0 /\ ty.name \in PrimitiveTypes THEN "Copy" ELSE "Ref"
    ELSE rt

\* ReturnType::choose_if_default
choose_if_default(rt, ty) ==
    IF rt = "Default"
    THEN IF ty.refs = 0 /\ ty.name \in PrimitiveTypes THEN "Copy"
         ELSE IF ty.refs > 0 THEN "Copy"
         ELSE "Ref"
    ELSE rt

\* ReturnType::to_ty: the accessor's return type.
to_ty(rt, ty) ==
    LET r == IF rt = "Default" THEN choose_if_default(rt, ty) ELSE rt
    IN  IF r = "Ref"
        THEN IF ty = Ty("String", 0) THEN Ty("str", 1)
             ELSE Ty(ty.name, ty.refs + 1)
        ELSE ty

\* SlotReceiver::return_ty
return_ty(field) == to_ty(field.return_type, field.ty)

\* SlotReceiver::return_type
return_type(field) == choose_if_default(field.return_type, field.ty)

\* The `fn field(&self) -> ty;` of the trait (SlotsTrait).
SlotsTrait_fn(field) == [ty |-> return_ty(field), body |-> ";"]

\* The accessor of the struct's impl (StructImpl).
StructImpl_fn(field) ==
    [ty |-> return_ty(field),
     body |-> CASE return_type(field) \in {"Ref", "Default"} -> "&self.f"
                [] return_type(field) = "Clone" -> "self.f.clone()"
                [] return_type(field) = "Copy" -> "self.f"]

\* The accessor of the fact wrapper's impl (AssertedImpl).
AssertedImpl_fn(field) ==
    [ty |-> return_ty(field), body |-> "value(&self.slot(name)).unwrap()"]

\* What recover returns: the host value, or a panic.
Recovered(h) == [panic |-> FALSE, rec |-> h]

RecoverPanicked == [panic |-> TRUE, rec |-> <<>>]

\* The values the slot reads of recover can return, one per slot name.
SlotReads(names, env, ptr) ==
    LET n == Len(names)
        all == UNION {Fact_slot(env, ptr, names[i]) : i \in 1..n}
    IN  {vs \in [1..n -> all] : \A i \in 1..n : vs[i] \in Fact_slot(env, ptr, names[i])}

\* The outcomes of building the host value from the slot reads: unwrap
\* panics on the first None.
RecoverFrom(fields, reads) ==
    {IF \E i \in 1..Len(fields) : ~value(fields[i].ty, vs[i]).some
     THEN RecoverPanicked
     ELSE Recovered([i \in 1..Len(fields) |-> value(fields[i].ty, vs[i]).v]) :
        vs \in reads}

\* A recover that reads each field from the slot of the field's own name.
Recoverable_recover_by_ident(schema, env, ptr) ==
    RecoverFrom(schema.fields,
                SlotReads([i \in 1..Len(schema.fields) |-> schema.fields[i].ident],
                          env, ptr))

\* Recoverable::recover as generated: every field is read from its slot.
Recoverable_recover(schema, env, ptr) ==
    RecoverFrom(schema.fields,
                SlotReads([i \in 1..Len(schema.fields) |-> slot_name(schema.fields[i])],
                          env, ptr))

(***************************************************************************)
(* State.                                                                  *)
(***************************************************************************)
VARIABLES
    vpc,        \* value protocol: "start", "allocated", "handed", "read", "panicked"
    host,       \* the host value handed to allocate
    foreign,    \* the engine value allocate returned
    readTy,     \* the type the value was read at
    readRes,    \* what ValueAccess::value returned
    engine,     \* the environment: [facts, garbage, next]
    builders,   \* the FactBuilders created, in creation order
    handles,    \* handles[ptr]: how many Fact handles to ptr the host holds
    iters,      \* the iterators created, in creation order
    last,       \* the last call and what it returned
    limit,      \* how many builders this run may create
    history,    \* what the host has seen: the facts asserted, the retractions
    panicked,   \* a call panicked and the thread unwound
    schema,     \* the record type #[derive(clips_fact)] was applied to
    mapped,     \* the generated asserts made: host value, result, wrapper
    mlast,      \* the last generated call and what it returned
    derived     \* one field of the derive input and the accessors emitted for it

valueVars == <<vpc, host, foreign, readTy, readRes>>

factVars == <<engine, builders, handles, iters, last, limit, history, panicked>>

mapVars == <<schema, mapped, mlast, derived>>

vars == <<valueVars, factVars, mapVars>>

ValueIdle ==
    /\ vpc = "start"
    /\ host = HBool(TRUE)
    /\ foreign = NoValue
    /\ readTy = "none"
    /\ readRes = None

\* Nothing emitted yet for a field.
NotEmitted == [ty |-> Ty("", 0), body |-> ""]

Underived(field) ==
    [pc |-> "input", field |-> field,
     trait |-> NotEmitted, struct |-> NotEmitted, asserted |-> NotEmitted]

RecordsIdle ==
    /\ schema = [template |-> "f1", fields |-> <<>>]
    /\ mapped = <<>>
    /\ mlast = [op |-> "none", w |-> 0, out |-> RecoverPanicked]

MapIdle ==
    /\ RecordsIdle
    /\ derived = Underived([ty |-> Ty("", 0), return_type |-> "Default"])

\* The environment after the deftemplates are loaded: no facts.
FactInit(n) ==
    /\ engine = [facts |-> <<>>, garbage |-> {}, next |-> 1, nextIndex |-> 1]
    /\ limit = n
    /\ builders = <<>>
    /\ handles = [p \in 0..n |-> 0]
    /\ iters = <<>>
    /\ last = [op |-> "new", res |-> OkUnit, b |-> 0, val |-> NoValue]
    /\ history = [asserted |-> <<>>, retracts |-> 0]
    /\ panicked = FALSE

(***************************************************************************)
(* The value protocol on its own: allocate any host value, read the        *)
(* result at any type.                                                     *)
(***************************************************************************)
InitValue ==
    /\ FactInit(0)
    /\ MapIdle
    /\ vpc = "start"
    /\ host \in HostValues
    /\ foreign = NoValue
    /\ readTy = "none"
    /\ readRes = None

Allocate ==
    /\ vpc = "start"
    /\ LET val == allocate(host)
       IN  IF val = Panic
           THEN vpc' = "panicked" /\ foreign' = foreign
           ELSE vpc' = "allocated" /\ foreign' = val
    /\ UNCHANGED <<host, readTy, readRes, factVars, mapVars>>

Read(ty) ==
    /\ vpc \in {"allocated", "handed"}
    /\ vpc' = IF value(ty, foreign) = ReadPanic THEN "panicked" ELSE "read"
    /\ readTy' = ty
    /\ readRes' = value(ty, foreign)
    /\ UNCHANGED <<host, foreign, factVars, mapVars>>

NextValue ==
    \/ Allocate
    \/ \E ty \in ReadTypes : Read(ty)

SpecValue == InitValue /\ [][NextValue]_vars

(***************************************************************************)
(* Reading values the engine hands over (eval results, slots of facts the  *)
(* engine's own constructs asserted): any tag, any lexeme bytes.           *)
(***************************************************************************)
\* Sample lexeme bytes: 'a', the two bytes of a two-byte character, and a
\* byte no UTF-8 text holds.
LexemeBytes == {97, 195, 169, 255}

Lexemes == SeqsUpTo(LexemeBytes, MaxTextLen) \cup {TRUE_LEXEME, FALSE_LEXEME}

EngineValues ==
    {CreateInteger(i) : i \in IntPatterns("i64")}
    \cup {CreateFloat(f) : f \in F64Values}
    \cup {CreateString(s \o <<NUL>>) : s \in Lexemes}
    \cup {CreateSymbol(s \o <<NUL>>) : s \in Lexemes}
    \cup {[tag |-> "InstanceName", lexemeValue |-> s \o <<NUL>>] : s \in Lexemes}
    \cup {allocate_Fact(p) : p \in 1..MaxFacts}
    \cup {NoValue}

\* No host value: the value did not come from allocate.
NoHost == [ty |-> "none"]

InitRead ==
    /\ FactInit(0)
    /\ MapIdle
    /\ vpc = "handed"
    /\ host = NoHost
    /\ foreign \in EngineValues
    /\ readTy = "none"
    /\ readRes = None

NextRead == \E ty \in ReadTypes : Read(ty)

SpecRead == InitRead /\ [][NextRead]_vars

(***************************************************************************)
(* The fact layer: builders, facts, handles and iterators of one           *)
(* Environment, driven by a single thread.                                 *)
(***************************************************************************)
\* The template names, slot names and values the host passes.
BuilderTemplates == Deftemplates \cup {"nope"}

PutSlots == SlotNames \cup {"zz"}

PutValues == {HInt("i32", <<1, 0, 0, 0>>), HText("str", <<97>>),
              HText("str", <<97, NUL>>)}

\* A builder as the host holds it: its state, the engine's struct, and what
\* the host remembers of it (the fact list when it was created, whether the
\* fact list changed since, the value of the last put to each slot that
\* returned Ok, and the fact whose handle that put moved in, if any).
NeverPut == [tag |-> "Void"]

NewBuilderRecord(fb, facts) ==
    [st |-> "Open", fb |-> fb, snap |-> facts, clean |-> TRUE,
     puts |-> [n \in PutSlots |-> NeverPut],
     refs |-> [n \in PutSlots |-> NULL]]

\* A builder after it was consumed or dropped.
Consumed(b, st, fb) == [b EXCEPT !.st = st, !.fb = fb, !.snap = <<>>]

\* The fact list changed: every open builder and every iterator has seen it
\* change.
FactsChanged(bs) ==
    [i \in DOMAIN bs |-> IF bs[i].st = "Open" THEN [bs[i] EXCEPT !.clean = FALSE]
                         ELSE bs[i]]

ItersChanged(its) == [i \in DOMAIN its |-> [its[i] EXCEPT !.clean = FALSE]]

Call(op, res, b, val) == [op |-> op, res |-> res, b |-> b, val |-> val]

\* env.new_fact_builder(template)
NewFactBuilder(template) ==
    /\ ~panicked
    /\ Len(builders) < limit
    /\ builders' = Append(builders,
                          NewBuilderRecord(Environment_new_fact_builder(template),
                                           engine.facts))
    /\ last' = Call("new_fact_builder", OkUnit, Len(builders) + 1, NoValue)
    /\ UNCHANGED <<engine, limit, handles, iters, history, panicked>>

\* fb.put(slot, v).  The value is passed by value: a Fact handle is moved
\* into the call.  A panic in allocate unwinds the thread, which drops every
\* builder that is still in scope.
Put(b, slot, v) ==
    /\ ~panicked
    /\ builders[b].st = "Open"
    /\ v.ty = "Fact" => v.ptr \in {p \in DOMAIN handles : handles[p] > 0}
    /\ handles' = IF v.ty = "Fact" THEN [handles EXCEPT ![v.ptr] = @ - 1]
                  ELSE handles
    /\ LET r == FactBuilder_put(builders[b].fb, slot, v)
       IN  /\ IF r.res.kind = "Panic"
              THEN /\ builders' =
                        [i \in DOMAIN builders |->
                            IF builders[i].st = "Open"
                            THEN Consumed(builders[i], "Unwound",
                                          FactBuilder_drop(builders[i].fb))
                            ELSE builders[i]]
                   /\ panicked' = TRUE
              ELSE /\ builders' =
                        [builders EXCEPT
                           ![b].fb = r.fb,
                           ![b].puts = IF r.res.kind = "Ok"
                                       THEN [@ EXCEPT ![slot] = allocate(v)]
                                       ELSE @,
                           ![b].refs = IF r.res.kind = "Ok"
                                       THEN [@ EXCEPT ![slot] =
                                               IF v.ty = "Fact" THEN v.ptr
                                               ELSE NULL]
                                       ELSE @]
                   /\ panicked' = FALSE
           /\ last' = Call("put", r.res, b, NoValue)
    /\ UNCHANGED <<engine, limit, iters, history>>

\* fb.assert(); the handle of an Ok is kept by the caller.
AssertFact(b, accept) ==
    /\ ~panicked
    /\ builders[b].st = "Open"
    /\ LET r == FactBuilder_assert(builders[b].fb, engine, accept)
           ok == r.res.kind = "Ok"
           bs == [builders EXCEPT ![b] = Consumed(@, "Asserted", r.fb)]
       IN  /\ engine' = r.env
           /\ builders' = IF ok THEN FactsChanged(bs) ELSE bs
           /\ iters' = IF ok THEN ItersChanged(iters) ELSE iters
           /\ handles' = IF ok THEN [handles EXCEPT ![r.res.ptr] = @ + 1]
                         ELSE handles
           /\ history' = IF ok
                         THEN [history EXCEPT
                                 !.asserted = Append(@, [ptr |-> r.res.ptr,
                                                         tmpl |-> builders[b].fb.tmpl,
                                                         b |-> b])]
                         ELSE history
           /\ last' = Call("assert", r.res, b, NoValue)
    /\ UNCHANGED <<limit, panicked>>

\* fb.abort()
Abort(b) ==
    /\ ~panicked
    /\ builders[b].st = "Open"
    /\ LET r == FactBuilder_abort(builders[b].fb, engine)
       IN  /\ engine' = r.env
           /\ builders' = [builders EXCEPT ![b] = Consumed(@, "Aborted", r.fb)]
    /\ last' = Call("abort", OkUnit, b, NoValue)
    /\ UNCHANGED <<limit, handles, iters, history, panicked>>

\* The builder goes out of scope with neither assert nor abort.
DropBuilder(b) ==
    /\ ~panicked
    /\ builders[b].st = "Open"
    /\ builders' = [builders EXCEPT
                      ![b] = Consumed(@, "Dropped", FactBuilder_drop(builders[b].fb))]
    /\ last' = Call("drop", OkUnit, b, NoValue)
    /\ UNCHANGED <<engine, limit, handles, iters, history, panicked>>

\* The pointers the host holds a handle to.
Held == {p \in DOMAIN handles : handles[p] > 0}

\* fact.index()
Index(ptr) ==
    /\ ~panicked
    /\ ptr \in Held
    /\ \E i \in Fact_index(engine, ptr) :
          last' = Call("index", OkFact(i), ptr, NoValue)
    /\ UNCHANGED <<engine, limit, builders, handles, iters, history, panicked>>

\* fact.slot(name)
Slot(ptr, name) ==
    /\ ~panicked
    /\ ptr \in Held
    /\ \E val \in Fact_slot(engine, ptr, name) :
          last' = Call("slot", OkUnit, ptr, val)
    /\ UNCHANGED <<engine, limit, builders, handles, iters, history, panicked>>

\* fact.retract(): the handle is consumed whatever the result.
RetractFact(ptr) ==
    /\ ~panicked
    /\ ptr \in Held
    /\ LET r == Fact_retract(engine, ptr)
           ok == r.res.kind = "Ok"
       IN  /\ engine' = r.env
           /\ builders' = IF ok THEN FactsChanged(builders) ELSE builders
           /\ iters' = IF ok THEN ItersChanged(iters) ELSE iters
           /\ history' = IF ok THEN [history EXCEPT !.retracts = @ + 1]
                         ELSE history
           /\ last' = Call("retract", r.res, ptr, NoValue)
    /\ handles' = [handles EXCEPT ![ptr] = @ - 1]
    /\ UNCHANGED <<limit, panicked>>

\* A handle goes out of scope (Fact has no destructor).
DropFact(ptr) ==
    /\ ~panicked
    /\ ptr \in Held
    /\ handles' = [handles EXCEPT ![ptr] = @ - 1]
    /\ last' = Call("drop_fact", OkUnit, ptr, NoValue)
    /\ UNCHANGED <<engine, limit, builders, iters, history, panicked>>

\* An iterator as the host holds it, with the items it has yielded and
\* whether the fact list changed since it was created.
NewIterRecord(it, via) ==
    [it |-> it, via |-> via, yielded |-> <<>>, clean |-> TRUE]

\* env.fact_iter()
FactIter ==
    /\ ~panicked
    /\ Len(iters) < MaxIters
    /\ iters' = Append(iters, NewIterRecord(Environment_fact_iter, "fact_iter"))
    /\ last' = Call("fact_iter", OkUnit, Len(iters) + 1, NoValue)
    /\ UNCHANGED <<engine, limit, builders, handles, history, panicked>>

\* env.find_template(name).unwrap().fact_iter()
TemplateFactIter(name) ==
    /\ ~panicked
    /\ Len(iters) < MaxIters
    /\ find_template(name).some
    /\ iters' = Append(iters, NewIterRecord(Template_fact_iter(find_template(name).v),
                                            "Template::fact_iter"))
    /\ last' = Call("template_fact_iter", OkUnit, Len(iters) + 1, NoValue)
    /\ UNCHANGED <<engine, limit, builders, handles, history, panicked>>

\* env.find_template(name).unwrap().into_fact_iter()
TemplateIntoFactIter(name) ==
    /\ ~panicked
    /\ Len(iters) < MaxIters
    /\ find_template(name).some
    /\ iters' = Append(iters,
                       NewIterRecord(Template_into_fact_iter(find_template(name).v),
                                     "Template::into_fact_iter"))
    /\ last' = Call("template_into_fact_iter", OkUnit, Len(iters) + 1, NoValue)
    /\ UNCHANGED <<engine, limit, builders, handles, history, panicked>>

\* it.next(); the caller keeps the handle of a Some or lets it go.
IterNext(i, keep) ==
    /\ ~panicked
    /\ \E p \in NextPointers(iters[i].it, engine) :
          LET r == Iter_next(iters[i].it, p)
          IN  /\ r.item # NULL /\ keep => handles[r.item] < MaxHandles
              /\ r.item = NULL => keep
              /\ iters' = [iters EXCEPT
                             ![i].it = r.it,
                             ![i].yielded = IF r.item = NULL THEN @
                                            ELSE Append(@, r.item)]
              /\ handles' = IF r.item # NULL /\ keep
                            THEN [handles EXCEPT ![r.item] = @ + 1]
                            ELSE handles
              /\ last' = Call("next",
                              IF r.item = NULL THEN OkUnit ELSE OkFact(r.item),
                              i, NoValue)
    /\ UNCHANGED <<engine, limit, builders, history, panicked>>

Init == FactInit(MaxFacts) /\ ValueIdle /\ MapIdle

(***************************************************************************)
(* Every operation of the layer, the builders fed one value for one slot.  *)
(***************************************************************************)
Next ==
    \/ \E t \in Deftemplates : NewFactBuilder(t) /\ UNCHANGED <<valueVars, mapVars>>
    \/ \E b \in DOMAIN builders :
          Put(b, "a", HInt("i32", <<1, 0, 0, 0>>)) /\ UNCHANGED <<valueVars, mapVars>>
    \/ \E b \in DOMAIN builders, accept \in BOOLEAN :
          AssertFact(b, accept) /\ UNCHANGED <<valueVars, mapVars>>
    \/ \E b \in DOMAIN builders : Abort(b) /\ UNCHANGED <<valueVars, mapVars>>
    \/ \E b \in DOMAIN builders : DropBuilder(b) /\ UNCHANGED <<valueVars, mapVars>>
    \/ \E p \in DOMAIN handles : Index(p) /\ UNCHANGED <<valueVars, mapVars>>
    \/ \E p \in DOMAIN handles : Slot(p, "a") /\ UNCHANGED <<valueVars, mapVars>>
    \/ \E p \in DOMAIN handles : RetractFact(p) /\ UNCHANGED <<valueVars, mapVars>>
    \/ \E p \in DOMAIN handles : DropFact(p) /\ UNCHANGED <<valueVars, mapVars>>
    \/ FactIter /\ UNCHANGED <<valueVars, mapVars>>
    \/ \E t \in BuilderTemplates : TemplateFactIter(t) /\ UNCHANGED <<valueVars, mapVars>>
    \/ \E t \in BuilderTemplates : TemplateIntoFactIter(t) /\ UNCHANGED <<valueVars, mapVars>>
    \/ \E i \in DOMAIN iters, keep \in BOOLEAN :
          IterNext(i, keep) /\ UNCHANGED <<valueVars, mapVars>>

Spec == Init /\ [][Next]_vars

(***************************************************************************)
(* The builders on their own, fed every slot name and value.               *)
(***************************************************************************)
NextBuilder ==
    \/ \E t \in BuilderTemplates : NewFactBuilder(t) /\ UNCHANGED <<valueVars, mapVars>>
    \/ \E b \in DOMAIN builders, n \in PutSlots, v \in PutValues :
          Put(b, n, v) /\ UNCHANGED <<valueVars, mapVars>>
    \/ \E b \in DOMAIN builders, accept \in BOOLEAN :
          AssertFact(b, accept) /\ UNCHANGED <<valueVars, mapVars>>
    \/ \E b \in DOMAIN builders : Abort(b) /\ UNCHANGED <<valueVars, mapVars>>
    \/ \E b \in DOMAIN builders : DropBuilder(b) /\ UNCHANGED <<valueVars, mapVars>>

InitBuilder == FactInit(MaxBuilders) /\ ValueIdle /\ MapIdle

SpecBuilder == InitBuilder /\ [][NextBuilder]_vars

(***************************************************************************)
(* Builders and the facts they assert, without iterators: every handle is  *)
(* the one assert returned.                                                *)
(***************************************************************************)
NextFacts ==
    \/ \E t \in BuilderTemplates : NewFactBuilder(t) /\ UNCHANGED <<valueVars, mapVars>>
    \/ \E b \in DOMAIN builders :
          Put(b, "a", HInt("i32", <<1, 0, 0, 0>>)) /\ UNCHANGED <<valueVars, mapVars>>
    \/ \E b \in DOMAIN builders, accept \in BOOLEAN :
          AssertFact(b, accept) /\ UNCHANGED <<valueVars, mapVars>>
    \/ \E b \in DOMAIN builders : Abort(b) /\ UNCHANGED <<valueVars, mapVars>>
    \/ \E b \in DOMAIN builders : DropBuilder(b) /\ UNCHANGED <<valueVars, mapVars>>
    \/ \E p \in DOMAIN handles : Index(p) /\ UNCHANGED <<valueVars, mapVars>>
    \/ \E p \in DOMAIN handles : RetractFact(p) /\ UNCHANGED <<valueVars, mapVars>>
    \/ \E p \in DOMAIN handles : DropFact(p) /\ UNCHANGED <<valueVars, mapVars>>

SpecFacts == Init /\ [][NextFacts]_vars

(***************************************************************************)
(* Facts that refer to facts: the handle of an asserted fact is put into   *)
(* slot b of a later builder.                                              *)
(***************************************************************************)
NextFactRef ==
    \/ \E t \in Deftemplates : NewFactBuilder(t) /\ UNCHANGED <<valueVars, mapVars>>
    \/ \E b \in DOMAIN builders :
          Put(b, "a", HInt("i32", <<1, 0, 0, 0>>)) /\ UNCHANGED <<valueVars, mapVars>>
    \/ \E b \in DOMAIN builders, p \in DOMAIN handles :
          Put(b, "b", HFact(p)) /\ UNCHANGED <<valueVars, mapVars>>
    \/ \E b \in DOMAIN builders, accept \in BOOLEAN :
          AssertFact(b, accept) /\ UNCHANGED <<valueVars, mapVars>>
    \/ \E p \in DOMAIN handles, n \in SlotNames :
          Slot(p, n) /\ UNCHANGED <<valueVars, mapVars>>
    \/ \E p \in DOMAIN handles : RetractFact(p) /\ UNCHANGED <<valueVars, mapVars>>

SpecFactRef == Init /\ [][NextFactRef]_vars

(***************************************************************************)
(* One builder's fact and the iterators over it: handles come from assert  *)
(* and from next().                                                        *)
(***************************************************************************)
NextIter ==
    \/ \E t \in Deftemplates : NewFactBuilder(t) /\ UNCHANGED <<valueVars, mapVars>>
    \/ \E b \in DOMAIN builders : AssertFact(b, TRUE) /\ UNCHANGED <<valueVars, mapVars>>
    \/ \E p \in DOMAIN handles : Index(p) /\ UNCHANGED <<valueVars, mapVars>>
    \/ \E p \in DOMAIN handles : Slot(p, "a") /\ UNCHANGED <<valueVars, mapVars>>
    \/ \E p \in DOMAIN handles : RetractFact(p) /\ UNCHANGED <<valueVars, mapVars>>
    \/ \E p \in DOMAIN handles : DropFact(p) /\ UNCHANGED <<valueVars, mapVars>>
    \/ FactIter /\ UNCHANGED <<valueVars, mapVars>>
    \/ \E t \in Deftemplates : TemplateFactIter(t) /\ UNCHANGED <<valueVars, mapVars>>
    \/ \E i \in DOMAIN iters, keep \in BOOLEAN :
          IterNext(i, keep) /\ UNCHANGED <<valueVars, mapVars>>

SpecIter == InitBuilder /\ [][NextIter]_vars

(***************************************************************************)
(* The generated mapping: one record type, host values of it asserted      *)
(* through the generated assert and recovered from the wrappers.           *)
(***************************************************************************)
\* Fields of one record type.
MaxFields == 2

FieldIdents == {"a", "b"}

FieldTypes == {"i8", "String", "bool"}

Renames == {None, Some("a"), Some("zz")}

MapTemplates == {"f1", "nope"}

FieldValues(ty) ==
    CASE ty = "i8"     -> {HInt("i8", <<1>>), HInt("i8", <<255>>)}
      [] ty = "String" -> {HText("String", <<97>>), HText("String", <<98>>),
                           HText("String", <<97, NUL>>)}
      [] ty = "bool"   -> {HBool(TRUE), HBool(FALSE)}

\* The record types: a struct's field names are distinct.
Schemas ==
    LET Fields == [ident : FieldIdents, ty : FieldTypes, rename : Renames]
    IN  {[template |-> t, fields |-> fs] :
            t \in MapTemplates,
            fs \in {fs \in SeqsUpTo(Fields, MaxFields) :
                      \A i, j \in 1..Len(fs) : fs[i].ident = fs[j].ident => i = j}}

\* The host values of a record type.
Records(sch) ==
    LET n == Len(sch.fields)
        all == UNION {FieldValues(ty) : ty \in FieldTypes}
    IN  {h \in [1..n -> all] : \A i \in 1..n : h[i] \in FieldValues(sch.fields[i].ty)}

InitMapping ==
    /\ FactInit(MaxFacts)
    /\ ValueIdle
    /\ schema \in Schemas
    /\ mapped = <<>>
    /\ mlast = [op |-> "none", w |-> 0, out |-> RecoverPanicked]
    /\ derived = Underived([ty |-> Ty("", 0), return_type |-> "Default"])

\* h.assert(&env)
MapAssert(h, accept) ==
    /\ ~panicked
    /\ Len(mapped) < limit
    /\ \E r \in {Assertable_assert(schema, h, engine, accept)} :
       LET ok == r.res.kind = "Ok"
       IN  /\ engine' = r.env
           /\ panicked' = (r.res.kind = "Panic")
           /\ mapped' = Append(mapped, [h |-> h, res |-> r.res, fb |-> r.fb,
                                        held |-> ok, puts |-> r.puts,
                                        asserted |-> r.asserted])
           /\ handles' = IF ok THEN [handles EXCEPT ![r.res.ptr] = @ + 1]
                         ELSE handles
           /\ history' = IF ok
                         THEN [history EXCEPT
                                 !.asserted = Append(@, [ptr |-> r.res.ptr,
                                                         tmpl |-> schema.template,
                                                         b |-> 0])]
                         ELSE history
           /\ mlast' = [op |-> "assert", w |-> Len(mapped) + 1,
                        out |-> RecoverPanicked]
    /\ UNCHANGED <<builders, iters, last, limit, schema, derived>>

\* wrapper.recover(): the wrapper, and its Fact handle, are consumed.
Recover(w) ==
    /\ ~panicked
    /\ mapped[w].held
    /\ \E out \in Recoverable_recover(schema, engine, mapped[w].res.ptr) :
          /\ mlast' = [op |-> "recover", w |-> w, out |-> out]
          /\ panicked' = out.panic
    /\ mapped' = [mapped EXCEPT ![w].held = FALSE]
    /\ handles' = [handles EXCEPT ![mapped[w].res.ptr] = @ - 1]
    /\ UNCHANGED <<engine, builders, iters, last, limit, history, schema, derived>>

NextMapping ==
    \/ \E h \in Records(schema), accept \in BOOLEAN :
          MapAssert(h, accept) /\ UNCHANGED valueVars
    \/ \E w \in DOMAIN mapped : Recover(w) /\ UNCHANGED valueVars

SpecMapping == InitMapping /\ [][NextMapping]_vars

(***************************************************************************)
(* derive_instruments on one field: the trait, the struct's impl and the   *)
(* fact wrapper's impl are emitted in that order.                          *)
(***************************************************************************)
TyNames == PrimitiveTypes \cup {"String", "str", "Other"}

DeriveFields ==
    [ty : {Ty(n, r) : n \in TyNames, r \in {0, 1}}, return_type : ReturnType]

InitDerive ==
    /\ FactInit(0)
    /\ ValueIdle
    /\ RecordsIdle
    /\ derived \in {Underived(f) : f \in DeriveFields}

SlotsTrait_to_tokens ==
    /\ derived.pc = "input"
    /\ derived' = [derived EXCEPT !.pc = "trait",
                                  !.trait = SlotsTrait_fn(derived.field)]
    /\ UNCHANGED <<valueVars, factVars, schema, mapped, mlast>>

StructImpl_to_tokens ==
    /\ derived.pc = "trait"
    /\ derived' = [derived EXCEPT !.pc = "struct",
                                  !.struct = StructImpl_fn(derived.field)]
    /\ UNCHANGED <<valueVars, factVars, schema, mapped, mlast>>

AssertedImpl_to_tokens ==
    /\ derived.pc = "struct"
    /\ derived' = [derived EXCEPT !.pc = "asserted",
                                  !.asserted = AssertedImpl_fn(derived.field)]
    /\ UNCHANGED <<valueVars, factVars, schema, mapped, mlast>>

NextDerive ==
    \/ SlotsTrait_to_tokens
    \/ StructImpl_to_tokens
    \/ AssertedImpl_to_tokens

SpecDerive == InitDerive /\ [][NextDerive]_vars

(***************************************************************************)
(*                               Properties                                *)
(***************************************************************************)
\* The engine tag section 4.1 gives each host type; a read at a type looks
\* for the same tag.
TagOfType(ty) ==
    CASE ty \in IntTypes            -> "Integer"
      [] ty \in FloatTypes          -> "Float"
      [] ty \in TextTypes           -> "String"
      [] ty \in {"Symbol", "bool"}  -> "Symbol"

\* The host types of C1: integers, floats, text (&str, String), booleans.
RoundTripTypes == IntTypes \cup FloatTypes \cup {"str", "String", "bool"}

\* C1: for every supported host value v, allocate(v) returns a value and
\* reading it back at v's own type returns Some(v).
C1_RoundTrip ==
    host.ty \in RoundTripTypes =>
        /\ vpc # "panicked"
        /\ (vpc = "read" /\ readTy = host.ty) => readRes = Some(host)

\* C2 as stated: reading allocate(v) at any type other than v's own type
\* returns None.
C2_NoneAtEveryOtherType ==
    (vpc = "read" /\ readTy # host.ty) => readRes = None

\* C2, amended: reading allocate(v) at a type whose engine tag differs from
\* the tag of v's type returns None.
C2_NoneAtOtherTag ==
    (vpc = "read" /\ TagOfType(readTy) # TagOfType(host.ty)) => readRes = None

C2_Witness ==
    /\ vpc = "read"
    /\ host.ty = "u8"
    /\ readTy = "str"
    /\ readRes = None

\* C3: a successful assert raises number_of_facts() by exactly one, a
\* successful retract lowers it by exactly one, every other call leaves it
\* unchanged; so the count is the successful asserts less the successful
\* retracts.
C3_FactCount ==
    /\ [](number_of_facts(engine) = Len(history.asserted) - history.retracts)
    /\ [][LET before == number_of_facts(engine)
              after == number_of_facts(engine')
          IN  CASE last'.op = "assert" /\ last'.res.kind = "Ok"  -> after = before + 1
                [] last'.op = "retract" /\ last'.res.kind = "Ok" -> after = before - 1
                [] OTHER                                         -> after = before]_vars

C3_Witness ==
    /\ last.op = "retract"
    /\ last.res.kind = "Ok"
    /\ Len(history.asserted) = 2
    /\ number_of_facts(engine) = 1

\* C4: retract through a handle whose fact was already retracted returns a
\* RetractError and leaves the fact count unchanged; retract consumes the
\* handle whether it succeeds or fails.
C4_SecondRetractRejected ==
    [][last'.op = "retract" =>
          LET ptr == last'.b
          IN  /\ handles'[ptr] = handles[ptr] - 1
              /\ ~IsLive(engine, ptr) =>
                    /\ last'.res.kind = "Err"
                    /\ last'.res.e # "RE_NO_ERROR"
                    /\ number_of_facts(engine') = number_of_facts(engine)]_vars

C4_Witness ==
    /\ last.op = "retract"
    /\ last.res.kind = "Err"
    /\ \E f \in engine.garbage : f.addr = last.b
    /\ \E i \in DOMAIN iters : last.b \in Range(iters[i].yielded)

C6_ReleasedOnce ==
    \A b \in DOMAIN builders :
        ~builders[b].fb.null =>
            /\ ~builders[b].fb.uaf
            /\ builders[b].st = "Open" => builders[b].fb.freed = 0
            /\ builders[b].st # "Open" => builders[b].fb.freed = 1

C6_Witness ==
    \E b \in DOMAIN builders :
        /\ builders[b].st = "Dropped"
        /\ ~builders[b].fb.null
        /\ builders[b].puts["a"] # NeverPut
        /\ builders[b].fb.freed = 1

\* C7: an iterator that has ended, the fact list not having changed since it
\* was created, has yielded every fact (of its template, for a
\* schema-scoped one) once, in assertion order, whichever of fact_iter and
\* into_fact_iter made it.
FactsOf(it, seq) ==
    IF it.kind = "Iter" THEN seq
    ELSE SelectSeq(seq, LAMBDA f : f.tmpl = it.template)

Pointers(seq) == [i \in 1..Len(seq) |-> IF "ptr" \in DOMAIN seq[i] THEN seq[i].ptr
                                        ELSE seq[i].addr]

C7_IterationComplete ==
    \A i \in DOMAIN iters :
        (iters[i].it.end /\ iters[i].clean) =>
            /\ iters[i].yielded = Pointers(FactsOf(iters[i].it, engine.facts))
            /\ history.retracts = 0 =>
                  iters[i].yielded = Pointers(FactsOf(iters[i].it, history.asserted))

C7_Witness ==
    \E i \in DOMAIN iters :
        /\ iters[i].it.end
        /\ iters[i].clean
        /\ iters[i].via = "Template::into_fact_iter"
        /\ Len(iters[i].yielded) = 1
        /\ number_of_facts(engine) = 2
        /\ history.retracts = 0

\* C9: a put on an open builder returns Ok or a SlotError and leaves the
\* builder open; a put that fails changes no staged value, so the staged
\* value of every slot is the value of the last put to it that returned Ok,
\* and the slot's default when there was none.
C9_LastPutWins ==
    /\ \A b \in DOMAIN builders :
          builders[b].st = "Open" =>
             /\ \A n \in SlotNames :
                   builders[b].fb.staged[n] =
                      IF builders[b].puts[n] = NeverPut THEN NilValue
                      ELSE builders[b].puts[n]
             /\ \A n \in PutSlots \ SlotsOf(builders[b].fb.tmpl) :
                   builders[b].puts[n] = NeverPut
    /\ last.op = "put" =>
          /\ last.res.kind \in {"Ok", "Err"}
          /\ last.res.kind = "Err" => last.res.e # "PSE_NO_ERROR"
          /\ builders[last.b].st = "Open"

\* C10: abort consumes the builder, discards what was staged and creates no
\* fact: the fact list is what it was when the builder was created (nothing
\* else having changed it in between), whatever was put.
C10_AbortCreatesNoFact ==
    [][last'.op = "abort" =>
          LET b == last'.b
          IN  /\ builders[b].st = "Open"
              /\ builders'[b].st = "Aborted"
              /\ builders'[b].fb.staged = DefaultSlots
              /\ engine'.facts = engine.facts
              /\ builders[b].clean =>
                    /\ engine'.facts = builders[b].snap
                    /\ number_of_facts(engine') = Len(builders[b].snap)]_vars

C10_Witness ==
    /\ last.op = "abort"
    /\ builders[last.b].puts["a"] # NeverPut
    /\ number_of_facts(engine) = 1

\* C8 as stated: for every record type with recovery and every host value h
\* whose assert succeeds, recover(assert(h).unwrap()) equals h.
C8_RoundTripEveryRecord ==
    mlast.op = "recover" => mlast.out = Recovered(mapped[mlast.w].h)

\* The fields of the record type map to pairwise distinct slot names.
DistinctSlots(sch) ==
    \A i, j \in 1..Len(sch.fields) :
        slot_name(sch.fields[i]) = slot_name(sch.fields[j]) => i = j

\* C8, amended: for every record type with recovery whose fields map to
\* pairwise distinct slot names, and every host value h whose assert
\* succeeds, recover(assert(h).unwrap()) equals h field for field.
C8_RoundTripDistinctSlots ==
    (mlast.op = "recover" /\ DistinctSlots(schema)) =>
        mlast.out = Recovered(mapped[mlast.w].h)

C8_Witness ==
    /\ mlast.op = "recover"
    /\ DistinctSlots(schema)
    /\ Len(schema.fields) = 2
    /\ schema.fields[2].rename = Some("a")
    /\ schema.fields[1].ty # schema.fields[2].ty
    /\ mlast.out = Recovered(mapped[mlast.w].h)
    /\ number_of_facts(engine) = 2

\* C11: once next() on an iterator has returned None, the iterator stays
\* ended and every later next() on it returns None and yields nothing,
\* whatever is asserted in between.
C11_EndIsPermanent ==
    [][/\ \A i \in DOMAIN iters :
             iters[i].it.end =>
                /\ iters'[i].it.end
                /\ iters'[i].yielded = iters[i].yielded
       /\ last'.op = "next" =>
             /\ last'.res = OkUnit => iters'[last'.b].it.end
             /\ iters[last'.b].it.end => last'.res = OkUnit]_vars

C11_Witness ==
    /\ last.op = "next"
    /\ last.res = OkUnit
    /\ iters[last.b].it.end
    /\ ~iters[last.b].clean
    /\ iters[last.b].yielded = <<>>
    /\ number_of_facts(engine) = 1
    /\ FactsOf(iters[last.b].it, engine.facts) # <<>>

\* C12: no slot() or index() read is made through a handle whose fact has
\* been retracted, however the handle was obtained.
C12_NoReadAfterRetract ==
    last.op \in {"slot", "index"} => IsLive(engine, last.b)

\* C13: index() of a live fact returns one non-negative value on every call
\* from its assertion to its retraction, whatever else is asserted or
\* retracted, and no two live facts have the same index.
C13_IndexStableUnique ==
    /\ [](\A p, q \in LivePointers(engine) :
             /\ \A i \in Fact_index(engine, p) : i >= 0
             /\ p # q => Fact_index(engine, p) \cap Fact_index(engine, q) = {})
    /\ [][/\ \A p \in LivePointers(engine) \cap LivePointers(engine') :
                /\ Fact_index(engine', p) = Fact_index(engine, p)
                /\ Cardinality(Fact_index(engine, p)) = 1
          /\ (last'.op = "index" /\ IsLive(engine, last'.b)) =>
                last'.res.ptr \in Fact_index(engine, last'.b)]_vars

C13_Witness ==
    /\ last.op = "index"
    /\ IsLive(engine, last.b)
    /\ history.retracts = 1
    /\ Len(history.asserted) = 2
    /\ last.b = history.asserted[2].ptr
    /\ last.res.ptr = 2

\* C14: the generated assert puts the fields in declaration order; when the
\* put of a field fails no later put is issued, the builder's assert is not
\* called, no fact is added, the builder is released and the operation
\* returns the generic failure of a rejected assert.
C14_FailFast ==
    [][Len(mapped') = Len(mapped) + 1 =>
          LET e == mapped'[Len(mapped')]
              n == Len(schema.fields)
              names == [i \in 1..n |-> slot_name(schema.fields[i])]
              open == Environment_new_fact_builder(schema.template)
              failing == {i \in 1..n :
                            FactBuilder_put(open, names[i], e.h[i]).res.kind # "Ok"}
          IN  IF failing = {}
              THEN e.puts = names /\ e.asserted
              ELSE LET k == CHOOSE i \in failing : \A j \in failing : i <= j
                   IN  /\ e.puts = SubSeq(names, 1, k)
                       /\ ~e.asserted
                       /\ engine' = engine
                       /\ e.fb.null \/ e.fb.freed = 1
                       /\ e.res = Err("()")]_vars

\* C15: allocate yields a value for every supported host value, tagged
\* Integer for the integer types, Float for the float types, String for
\* text, Symbol for the Symbol wrapper, and for a boolean a Symbol whose
\* lexeme is exactly "TRUE" or "FALSE".
C15_AllocateTag ==
    vpc # "start" =>
        /\ vpc # "panicked"
        /\ type_of(foreign) = TagOfType(host.ty)
        /\ host.ty = "bool" =>
              foreign.lexemeValue =
                 (IF host.b THEN TRUE_LEXEME ELSE FALSE_LEXEME) \o <<NUL>>

\* The number an integer's bytes stand for, as a two's complement pattern
\* one byte wider than the widest type: equal patterns, equal numbers.
Numeric(bytes, ty) ==
    LET n == Len(bytes)
        fill == IF IsSigned(ty) /\ bytes[n] >= 128 THEN 255 ELSE 0
    IN  bytes \o [i \in 1..(SizeOf("i64") + 1 - n) |-> fill]

\* C16: the engine Integer allocate makes of a host integer of any width,
\* signed or unsigned, is numerically equal to the host integer.
C16_IntegerPreserved ==
    (vpc # "start" /\ host.ty \in IntTypes) =>
        /\ type_of(foreign) = "Integer"
        /\ Numeric(foreign.integerValue, "i64") = Numeric(host.i, host.ty)

\* C17: when the handle of an asserted fact was put into slot b of a second
\* builder of the same template and that builder was asserted, slot("b") of
\* the second fact is tagged FactAddress, not String, and refers to the
\* first fact; both asserts succeeded, and with both facts live and no
\* other the fact count is 2.
C17_FactReference ==
    \A k \in DOMAIN history.asserted :
       LET e == history.asserted[k]
           p == builders[e.b].refs["b"]
       IN  (p # NULL /\ IsLive(engine, e.ptr)) =>
              /\ \A val \in Fact_slot(engine, e.ptr, "b") :
                    /\ type_of(val) = "FactAddress"
                    /\ type_of(val) # "String"
                    /\ val.factValue = p
              /\ \E j \in 1..(k - 1) : history.asserted[j].ptr = p
              /\ (Len(history.asserted) = 2 /\ history.retracts = 0)
                    => number_of_facts(engine) = 2

C17_Witness ==
    /\ Len(history.asserted) = 2
    /\ history.asserted[1].tmpl = history.asserted[2].tmpl
    /\ builders[history.asserted[2].b].refs["b"] = history.asserted[1].ptr
    /\ last.op = "slot"
    /\ last.b = history.asserted[2].ptr
    /\ type_of(last.val) = "FactAddress"
    /\ number_of_facts(engine) = 2

\* C18: with no override a field of type bool, of an integer or a float type,
\* or of a reference type resolves to Copy and a field of any other type to
\* Ref (borrow); an override is kept whatever the type; and the trait, the
\* struct's impl and the fact wrapper's impl declare one return type for
\* the field, the one the resolved representation gives.
C18_Resolution ==
    LET f == derived.field
        resolved == return_type(f)
        borrowed == IF f.ty = Ty("String", 0) THEN Ty("str", 1)
                    ELSE Ty(f.ty.name, f.ty.refs + 1)
        declared == IF resolved = "Ref" THEN borrowed ELSE f.ty
    IN  /\ (f.return_type = "Default" /\ f.ty.refs = 0 /\ f.ty.name \in PrimitiveTypes)
              => resolved = "Copy"
        /\ (f.return_type = "Default" /\ f.ty.refs > 0) => resolved = "Copy"
        /\ (f.return_type = "Default" /\ f.ty.refs = 0 /\ f.ty.name \notin PrimitiveTypes)
              => resolved = "Ref"
        /\ f.return_type # "Default" => resolved = f.return_type
        /\ derived.pc \in {"trait", "struct", "asserted"} => derived.trait.ty = declared
        /\ derived.pc \in {"struct", "asserted"} =>
              /\ derived.struct.ty = derived.trait.ty
              /\ derived.struct.body =
                    (CASE resolved = "Ref" -> "&self.f"
                       [] resolved = "Clone" -> "self.f.clone()"
                       [] resolved = "Copy" -> "self.f")
        /\ derived.pc = "asserted" => derived.asserted.ty = derived.trait.ty

C18_Witness ==
    /\ derived.pc = "asserted"
    /\ derived.field = [ty |-> Ty("str", 1), return_type |-> "Default"]
    /\ derived.trait.ty = Ty("str", 1)
    /\ derived.struct = [ty |-> Ty("str", 1), body |-> "self.f"]
    /\ derived.asserted.ty = Ty("str", 1)

\* C19: when the last put to slot s of a builder that returned Ok had value
\* v and the builder's assert succeeded, slot(s) through any handle the host
\* holds to that fact, from assert or from an iterator, returns a value with
\* the tag of allocate(v) that reads back as v at v's type.
C19_ReadBack ==
    \A k \in DOMAIN history.asserted, s \in SlotNames, v \in PutValues :
       LET e == history.asserted[k]
       IN  (/\ e.b # 0
            /\ allocate(v) # Panic
            /\ builders[e.b].puts[s] = allocate(v)
            /\ e.ptr \in Held) =>
              \A val \in Fact_slot(engine, e.ptr, s) :
                 /\ type_of(val) = type_of(allocate(v))
                 /\ value(v.ty, val) = Some(v)

\* C20: reading a value at bool never faults; it returns Some(true) exactly
\* when the value is a Symbol with lexeme "TRUE", Some(false) exactly when it
\* is a Symbol with lexeme "FALSE", and None in every other case.
C20_BoolExtraction ==
    (vpc \in {"read", "panicked"} /\ readTy = "bool") =>
        LET symbol == type_of(foreign) = "Symbol"
            lexeme == IF symbol THEN UntilNul(foreign.lexemeValue) ELSE <<>>
        IN  /\ vpc # "panicked"
            /\ readRes = Some(HBool(TRUE)) <=> (symbol /\ lexeme = TRUE_LEXEME)
            /\ readRes = Some(HBool(FALSE)) <=> (symbol /\ lexeme = FALSE_LEXEME)
            /\ readRes \in {Some(HBool(TRUE)), Some(HBool(FALSE)), None}

\* C21: reading a value tagged Integer at an integer type T never returns
\* None: it returns the low bytes of the 64-bit payload, as many as T is
\* wide, taken in T's signedness, also when the payload is outside T's
\* range.
C21_IntegerReadWraps ==
    (vpc = "read" /\ readTy \in IntTypes /\ type_of(foreign) = "Integer") =>
        /\ readRes # None
        /\ readRes.some
        /\ readRes.v.ty = readTy
        /\ Len(readRes.v.i) = SizeOf(readTy)
        /\ \A i \in 1..SizeOf(readTy) : readRes.v.i[i] = foreign.integerValue[i]

\* A payload of -1 read at u64, and so returned as 2^64 - 1.
C21_Witness ==
    /\ vpc = "read"
    /\ readTy = "u64"
    /\ foreign = CreateInteger([i \in 1..SizeOf("i64") |-> 255])
    /\ readRes.some
    /\ Numeric(readRes.v.i, readTy) # Numeric(foreign.integerValue, "i64")

=============================================================================
